---------------------------- MODULE Spec2Model ----------------------------
(***************************************************************************)
(* Model of the miaw-client realtime session layer:                        *)
(*   - EventService.createEventSourceStream and the push connection it     *)
(*     hands to eventsource-client (handlers onConnect / onDisconnect /    *)
(*     onMessage, the returned handle's close()),                          *)
(*   - makeRequest, createError / getErrorTypeFromStatus,                  *)
(*   - the TokenService and ConversationService operations that funnel     *)
(*     through makeRequest.                                                *)
(* Mock-style call counters (how often a callback, fetch or logger.error   *)
(* was invoked) are part of the state, as they are in the repository's     *)
(* jest tests.                                                             *)
(***************************************************************************)
EXTENDS Integers, Sequences, FiniteSets, TLC

VARIABLES streams, nstreams, reqs, nreq, clients

vars == <<streams, nstreams, reqs, nreq, clients>>

-----------------------------------------------------------------------------
(* Bounds *)

MaxStreams == 1
MaxFrames == 2
MaxAttempts == 2
MaxUserClose == 2
MaxReq == 1
MaxClients == 2
MaxCalls == 2

StreamIds == 1..MaxStreams
(* The slots of the call table: the public operations use MaxReq of them,  *)
(* the direct callers of makeRequest MaxCalls.                             *)
ReqIds == 1..(IF MaxCalls > MaxReq THEN MaxCalls ELSE MaxReq)

(* Input alphabets *)
Absent == "<absent>"
StreamTokens == {"", "tokA"}
Tokens == {"tokA", "tokB"}
ConvIds == {"c1", "c2"}
BaseUrl == "https://test.com"
OrgId == "test-org"
DeveloperName == "test-dev"

-----------------------------------------------------------------------------
(* EventService *)

NoOptions == [lastEventId |-> Absent, onOpen |-> FALSE, onError |-> FALSE, onClose |-> FALSE]

(* The options the callers of the model pass (onEvent is always given). *)
SSEOptionsSet ==
  {NoOptions,
   [lastEventId |-> "ev7", onOpen |-> TRUE, onError |-> TRUE, onClose |-> TRUE],
   [lastEventId |-> "", onOpen |-> TRUE, onError |-> FALSE, onClose |-> FALSE]}

(* A slot of the call table before createEventSourceStream has been called. *)
IdleStream ==
  [called |-> FALSE, token |-> "", options |-> NoOptions, thrown |-> "",
   state |-> "Idle", url |-> "", headers |-> {},
   created |-> 0, fetches |-> 0, timer |-> FALSE, eof |-> FALSE,
   connects |-> 0, disconnects |-> 0, errors |-> 0,
   ctrlClose |-> 0, userClose |-> 0,
   onOpenCalls |-> 0, onEventCalls |-> 0, onErrorCalls |-> 0, onCloseCalls |-> 0,
   eventsAfterDisconnect |-> 0, fetchesAfterDisconnect |-> 0,
   arrived |-> <<>>, delivered |-> <<>>]

(* The n-th frame the service sends on a stream, as the library hands it   *)
(* to onMessage. No controller code branches on a frame, so the model      *)
(* fixes the script: frames differ from one another and alternate between  *)
(* two event names.                                                        *)
Frame(n) ==
  [id |-> ToString(n),
   event |-> IF n % 2 = 1 THEN "CONVERSATION_MESSAGE"
             ELSE "CONVERSATION_TYPING_STARTED_INDICATOR",
   data |-> "payload-" \o ToString(n)]

(* A plausible slip: the resumption header is written unconditionally. *)
StreamHeadersAlwaysCursor(token, options) ==
  {<<"Accept", "text/event-stream">>,
   <<"Authorization", "Bearer " \o token>>,
   <<"X-Org-Id", OrgId>>,
   <<"Last-Event-Id", IF options.lastEventId = Absent THEN "undefined"
                      ELSE options.lastEventId>>}

(* The header object literal of the createEventSource call. The spread     *)
(* `...(options.lastEventId ? {...} : {})` tests truthiness: an absent or  *)
(* empty lastEventId adds nothing.                                         *)
StreamHeaders(token, options) ==
  {<<"Accept", "text/event-stream">>,
   <<"Authorization", "Bearer " \o token>>,
   <<"X-Org-Id", OrgId>>}
  \cup (IF options.lastEventId # Absent /\ options.lastEventId # ""
        THEN {<<"Last-Event-Id", options.lastEventId>>} ELSE {})

(* eventsource-client: connect() issues the fetch of the stream. *)
LibConnect(st) ==
  [st EXCEPT !.state = "Connecting", !.timer = FALSE,
             !.fetches = @ + 1,
             !.fetchesAfterDisconnect = @ + (IF st.disconnects > 0 THEN 1 ELSE 0)]

(* eventsource-client: close() on the connection: aborts the fetch and     *)
(* clears the reconnect timer. Calling it again changes nothing.           *)
LibClose(st) == [st EXCEPT !.state = "Closed", !.timer = FALSE]

(* eventsource-client: after the stream ends or fails the library arms a   *)
(* timer that reconnects (the behaviour the handler's log line calls       *)
(* "auto reconnect").                                                      *)
LibScheduleReconnect(st) == [st EXCEPT !.state = "Connecting", !.timer = TRUE]

(* A plausible slip: `options.onOpen()` without the `?.`, which calls the  *)
(* member whether or not the caller gave one.                              *)
OnConnectHandlerUnguarded(st) ==
  [st EXCEPT !.onOpenCalls = @ + 1]

(* onConnect: () => { logger.info(...); options.onOpen?.() } *)
OnConnectHandler(st) ==
  [st EXCEPT !.onOpenCalls = @ + (IF st.options.onOpen THEN 1 ELSE 0)]

(* A plausible slip: the handler logs but leaves the connection alone. *)
OnDisconnectHandlerNoClose(st) == st

(* A plausible slip: the handler reconnects by itself. *)
OnDisconnectHandlerReconnect(st) == LibConnect([st EXCEPT !.ctrlClose = @ + 1])

(* onDisconnect: () => { logger.info(...); eventSource.close() } *)
OnDisconnectHandler(st) == LibClose([st EXCEPT !.ctrlClose = @ + 1])

(* A plausible slip: the handler forwards message events only. *)
OnMessageHandlerFiltered(st, frame) ==
  IF frame.event = "CONVERSATION_MESSAGE"
  THEN [st EXCEPT !.onEventCalls = @ + 1,
                  !.delivered = Append(@, frame),
                  !.eventsAfterDisconnect = @ + (IF st.disconnects > 0 THEN 1 ELSE 0)]
  ELSE st

(* onMessage: options.onEvent -- the caller's callback is registered as    *)
(* the handler itself and receives the frame as the library passes it.     *)
OnMessageHandler(st, frame) ==
  [st EXCEPT !.onEventCalls = @ + 1,
             !.delivered = Append(@, frame),
             !.eventsAfterDisconnect = @ + (IF st.disconnects > 0 THEN 1 ELSE 0)]

(* A plausible slip: the token guard is missing. *)
CreateStreamNoGuard(st, token, options) ==
  LibConnect([st EXCEPT !.called = TRUE, !.token = token, !.options = options,
                        !.url = BaseUrl \o "/eventrouter/v1/sse",
                        !.headers = StreamHeaders(token, options),
                        !.created = @ + 1])

(* createEventSourceStream(token, options), as a function of the call slot *)
CreateStream(st, token, options) ==
  IF token = ""
  THEN [st EXCEPT !.called = TRUE, !.token = token, !.options = options,
                  !.thrown = "Authentication token is required"]
  ELSE LibConnect([st EXCEPT !.called = TRUE, !.token = token, !.options = options,
                             !.url = BaseUrl \o "/eventrouter/v1/sse",
                             !.headers = StreamHeaders(token, options),
                             !.created = @ + 1])

CreateEventSourceStream ==
  /\ nstreams < MaxStreams
  /\ \E token \in StreamTokens, options \in SSEOptionsSet :
       /\ nstreams' = nstreams + 1
       /\ streams' = [streams EXCEPT ![nstreams + 1] = CreateStream(@, token, options)]
  /\ UNCHANGED <<reqs, nreq, clients>>

(* The stream request got its response: the library calls onConnect and    *)
(* starts reading the body.                                                *)
TransportConnect(s) ==
  /\ streams[s].state = "Connecting" /\ ~streams[s].timer
  /\ streams' = [streams EXCEPT ![s] =
        [OnConnectHandler(@) EXCEPT !.state = "Open", !.connects = @ + 1]]
  /\ UNCHANGED <<nstreams, reqs, nreq, clients>>

(* One inbound frame of an open stream. *)
TransportFrame(s) ==
  /\ streams[s].state = "Open" /\ ~streams[s].eof
  /\ Len(streams[s].arrived) < MaxFrames
  /\ LET frame == Frame(Len(streams[s].arrived) + 1) IN
     streams' = [streams EXCEPT ![s] =
        OnMessageHandler([@ EXCEPT !.arrived = Append(@, frame)], frame)]
  /\ UNCHANGED <<nstreams, reqs, nreq, clients>>

(* The body of an open stream ended (server closed it or the network       *)
(* dropped): the library's read loop has seen the end and will run its     *)
(* disconnect path next.                                                   *)
TransportEnds(s) ==
  /\ streams[s].state = "Open" /\ ~streams[s].eof
  /\ streams' = [streams EXCEPT ![s].eof = TRUE]
  /\ UNCHANGED <<nstreams, reqs, nreq, clients>>

(* The library's disconnect path: it schedules its reconnect and then      *)
(* calls the onDisconnect handler the controller registered.               *)
TransportDisconnect(s) ==
  /\ streams[s].eof
  /\ streams' = [streams EXCEPT ![s] =
        OnDisconnectHandler(
          LibScheduleReconnect([@ EXCEPT !.eof = FALSE, !.disconnects = @ + 1]))]
  /\ UNCHANGED <<nstreams, reqs, nreq, clients>>

(* The stream request or a read of its body failed with a network error:   *)
(* the library schedules a reconnect. The configuration the controller     *)
(* passes has no hook for this, so no controller code runs.                *)
TransportError(s) ==
  /\ \/ streams[s].state = "Connecting" /\ ~streams[s].timer
     \/ streams[s].state = "Open" /\ ~streams[s].eof
  /\ streams' = [streams EXCEPT ![s] =
        LibScheduleReconnect([@ EXCEPT !.errors = @ + 1])]
  /\ UNCHANGED <<nstreams, reqs, nreq, clients>>

(* The library's reconnect timer fires. *)
ReconnectTimerFires(s) ==
  /\ streams[s].timer
  /\ streams[s].fetches < MaxAttempts
  /\ streams' = [streams EXCEPT ![s] = LibConnect(@)]
  /\ UNCHANGED <<nstreams, reqs, nreq, clients>>

(* The caller calls close() on the handle createEventSourceStream returned. *)
(* It may come between the end of the body and the disconnect path. The    *)
(* handle's other members are not used by the callers of the model.        *)
HandleClose(s) ==
  /\ streams[s].created > 0
  /\ streams[s].userClose < MaxUserClose
  /\ streams' = [streams EXCEPT ![s] = LibClose([@ EXCEPT !.userClose = @ + 1])]
  /\ UNCHANGED <<nstreams, reqs, nreq, clients>>

InitStream ==
  /\ streams = [s \in StreamIds |-> IdleStream]
  /\ nstreams = 0

NextStream ==
  \/ CreateEventSourceStream
  \/ \E s \in StreamIds : TransportConnect(s)
  \/ \E s \in StreamIds : TransportFrame(s)
  \/ \E s \in StreamIds : TransportEnds(s)
  \/ \E s \in StreamIds : TransportDisconnect(s)
  \/ \E s \in StreamIds : TransportError(s)
  \/ \E s \in StreamIds : ReconnectTimerFires(s)
  \/ \E s \in StreamIds : HandleClose(s)

-----------------------------------------------------------------------------
(* utils/error: createError, getErrorTypeFromStatus *)

NoError ==
  [name |-> Absent, message |-> Absent, statusCode |-> 0, operation |-> Absent, type |-> Absent]

(* A plausible slip: one row of the table is missing. *)
getErrorTypeFromStatusLossy(status) ==
  IF status = 400 THEN "invalid_request"
  ELSE IF status = 401 THEN "authentication_error"
  ELSE IF status = 403 THEN "permission_error"
  ELSE IF status = 404 THEN "not_found"
  ELSE IF status = 409 THEN "conflict"
  ELSE IF status = 500 THEN "api_error"
  ELSE "unknown_error"

getErrorTypeFromStatus(status) ==
  IF status = 400 THEN "invalid_request"
  ELSE IF status = 401 THEN "authentication_error"
  ELSE IF status = 403 THEN "permission_error"
  ELSE IF status = 404 THEN "not_found"
  ELSE IF status = 409 THEN "conflict"
  ELSE IF status = 429 THEN "rate_limit_error"
  ELSE IF status = 500 THEN "api_error"
  ELSE "unknown_error"

createError(status, operation) ==
  [name |-> "Error",
   message |-> "Error in " \o operation \o ": " \o ToString(status),
   statusCode |-> status,
   operation |-> operation,
   type |-> getErrorTypeFromStatus(status)]

-----------------------------------------------------------------------------
(* utils/request: makeRequest *)

(* JavaScript truthiness of an optional string: undefined and '' are falsy *)
Truthy(x) == x # Absent /\ x # ""

(* a || b on optional strings *)
OrElse(x, d) == IF Truthy(x) THEN x ELSE d

(* An object literal is a set of <<path, value>> pairs; JSON.stringify     *)
(* drops the members whose value is undefined.                             *)
JsonStringify(obj) == {p \in obj : p[2] # Absent}

HasHeader(headers, name) == \E p \in headers : p[1] = name

(* Response.ok *)
IsOk(status) == status >= 200 /\ status <= 299

Statuses == {200, 204, 400, 401, 403, 404, 409, 418, 429, 500, 502, 503}

IdleReq ==
  [pc |-> "idle", svc |-> "", args |-> <<>>,
   url |-> "", method |-> "", headers |-> {}, body |-> {}, operation |-> "",
   timeout |-> 0, timer |-> FALSE, aborted |-> FALSE, fetches |-> 0,
   status |-> 0, response |-> [kind |-> "none"], outcome |-> "none", err |-> NoError,
   errorLogs |-> 0, logged |-> NoError,
   result |-> "pending", value |-> <<>>]

(* makeRequest up to `await fetch(url, fetchOptions)`: arms the abort      *)
(* timer when a timeout is given, serialises the body, adds the JSON       *)
(* content type when the caller set none, and issues the one fetch.        *)
MakeRequestStart(rq, url, method, headers, body, timeout, operation) ==
  [rq EXCEPT !.pc = "inflight",
             !.url = url, !.method = method,
             !.headers = IF body # {} /\ ~HasHeader(headers, "Content-Type")
                         THEN headers \cup {<<"Content-Type", "application/json">>}
                         ELSE headers,
             !.body = JsonStringify(body),
             !.operation = operation,
             !.timeout = timeout,
             !.timer = (timeout > 0),
             !.fetches = @ + 1]

(* `throw createError(response.status, operation)` caught by the catch     *)
(* block: not an AbortError, so it is logged once and rethrown; finally    *)
(* clears the timer.                                                       *)
MakeRequestStatusError(rq, status) ==
  LET e == createError(status, rq.operation) IN
  [rq EXCEPT !.pc = "done", !.status = status, !.outcome = "status_error",
             !.err = e, !.errorLogs = @ + 1, !.logged = e,
             !.timer = FALSE, !.result = "rejected"]

(* fetch rejected with a network error (no response): logged and rethrown  *)
(* as it is.                                                               *)
MakeRequestTransportError(rq) ==
  LET e == [name |-> "TypeError", message |-> "fetch failed", statusCode |-> 0,
            operation |-> Absent, type |-> Absent] IN
  [rq EXCEPT !.pc = "done", !.outcome = "transport_error",
             !.err = e, !.errorLogs = @ + 1, !.logged = e,
             !.timer = FALSE, !.result = "rejected"]

(* A plausible slip: the catch block has no AbortError branch, so the      *)
(* abort is logged and rethrown like any other failure.                    *)
MakeRequestTimeoutErrorUnclassified(rq) ==
  LET e == [name |-> "AbortError", message |-> "This operation was aborted",
            statusCode |-> 0, operation |-> Absent, type |-> Absent] IN
  [rq EXCEPT !.pc = "done", !.outcome = "transport_error",
             !.err = e, !.errorLogs = @ + 1, !.logged = e,
             !.timer = FALSE, !.result = "rejected"]

(* fetch rejected with an AbortError after controller.abort() *)
MakeRequestTimeoutError(rq) ==
  LET e == [name |-> "Error",
            message |-> "Request timeout for operation: " \o rq.operation,
            statusCode |-> 0, operation |-> rq.operation, type |-> "timeout_error"] IN
  [rq EXCEPT !.pc = "done", !.outcome = "timeout_error",
             !.err = e, !.errorLogs = @ + 1, !.logged = e,
             !.timer = FALSE, !.result = "rejected"]

-----------------------------------------------------------------------------
(* Responses the remote service can send *)

NoBody == [kind |-> "none"]

TokenBodies ==
  {[kind |-> "token", accessToken |-> "mock-token", lastEventId |-> "0"],
   [kind |-> "token", accessToken |-> "other-token", lastEventId |-> "41"]}

(* What the service may answer to conversation create; the operation never *)
(* reads it.                                                               *)
CreateBodies == {NoBody, [kind |-> "created", conversationId |-> "server-id"]}

StatusBodies == {[kind |-> "status", routingStatus |-> "ROUTED"]}

WireEntries ==
  {[identifier |-> "e1", entryType |-> "Message", entryPayload |-> "hello",
    clientTimestamp |-> 0, subject |-> "agent-1", role |-> "Agent"],
   [identifier |-> "e2", entryType |-> "TypingStartedIndicator", entryPayload |-> "typing-payload",
    clientTimestamp |-> 1000, subject |-> "user-1", role |-> "EndUser"]}

MessageBodies ==
  {[kind |-> "message", conversationEntries |-> es] :
     es \in {<<>>, <<[id |-> "m-9", clientTimestamp |-> 0]>>,
             <<[id |-> "m-9", clientTimestamp |-> 1000],
               [id |-> "m-10", clientTimestamp |-> 0]>>}}

EntryBodies ==
  {[kind |-> "entries", conversationEntries |-> es] :
     es \in {<<>>} \cup {<<e>> : e \in WireEntries}
            \cup {<<p[1], p[2]>> : p \in {q \in WireEntries \X WireEntries : q[1] # q[2]}}}

JsonServices == {"tokens.create", "tokens.continue", "conversations.status",
                 "conversations.sendMessage", "conversations.list"}

(* The bodies a response to a call of svc can carry: a 204 has none. *)
Bodies(svc, status) ==
  IF ~IsOk(status) \/ status = 204 THEN {NoBody}
  ELSE IF svc \in {"tokens.create", "tokens.continue"} THEN TokenBodies
  ELSE IF svc = "conversations.create" THEN CreateBodies
  ELSE IF svc = "conversations.status" THEN StatusBodies
  ELSE IF svc = "conversations.sendMessage" THEN MessageBodies
  ELSE IF svc = "conversations.list" THEN EntryBodies
  ELSE {NoBody}

(* new Date(ms).toISOString() on the timestamps of WireEntries *)
ToISOString(ms) ==
  IF ms = 0 THEN "1970-01-01T00:00:00.000Z"
  ELSE IF ms = 1000 THEN "1970-01-01T00:00:01.000Z"
  ELSE "invalid"

(* randomUUID() and String.prototype.toLowerCase on its results *)
RawUuids == {"9B1D-AA", "9b1d-aa"}

ToLowerCase(x) == IF x = "9B1D-AA" THEN "9b1d-aa" ELSE x

Bearer(token) == <<"Authorization", "Bearer " \o token>>

JsonContentType == <<"Content-Type", "application/json">>

ApiRoot == BaseUrl \o "/iamessage/api/v2"

-----------------------------------------------------------------------------
(* TokenService *)

NoParams ==
  [given |-> FALSE, deviceId |-> Absent, authorizationType |-> Absent,
   customerIdentityToken |-> Absent]

TokenCreateParamsSet ==
  {NoParams} \cup
  [given : {TRUE}, deviceId : {Absent, "dev-1"},
   authorizationType : {Absent, "", "JWT"},
   customerIdentityToken : {Absent, "", "id-token"}]

(* What the specification asks for: both credentials present and non-empty *)
isAuthenticatedTokenConfigNonEmpty(params) ==
  /\ params.given
  /\ Truthy(params.authorizationType)
  /\ Truthy(params.customerIdentityToken)

(* isAuthenticatedTokenConfig: `typeof x === 'string'` holds of every       *)
(* string, the empty one included, and fails only when the field is absent *)
isAuthenticatedTokenConfig(params) ==
  /\ params.given
  /\ params.authorizationType # Absent
  /\ params.customerIdentityToken # Absent

(* A plausible slip: the default context is not filled in. *)
TokenCreateStartNoContext(rq, params) ==
  LET tokenType == IF isAuthenticatedTokenConfig(params)
                   THEN "authenticated" ELSE "unauthenticated"
      body == {<<"orgId", OrgId>>,
               <<"esDeveloperName", DeveloperName>>,
               <<"capabilitiesVersion", "1">>,
               <<"platform", "Web">>}
              \cup (IF Truthy(params.deviceId)
                    THEN {<<"deviceId", params.deviceId>>} ELSE {})
              \cup (IF Truthy(params.authorizationType)
                    THEN {<<"authorizationType", params.authorizationType>>} ELSE {})
              \cup (IF Truthy(params.customerIdentityToken)
                    THEN {<<"customerIdentityToken", params.customerIdentityToken>>}
                    ELSE {})
  IN MakeRequestStart([rq EXCEPT !.svc = "tokens.create", !.args = params],
                      ApiRoot \o "/authorization/" \o tokenType \o "/access-token",
                      "POST", {JsonContentType}, body, 0,
                      "tokens.create_" \o tokenType \o "_token")

(* create up to its await; the callers modelled leave capabilitiesVersion, *)
(* platform and context unset, so the `||` defaults apply.                 *)
TokenCreateStart(rq, params) ==
  LET tokenType == IF isAuthenticatedTokenConfig(params)
                   THEN "authenticated" ELSE "unauthenticated"
      body == {<<"orgId", OrgId>>,
               <<"esDeveloperName", DeveloperName>>,
               <<"capabilitiesVersion", "1">>,
               <<"platform", "Web">>,
               <<"context.appName", "MessagingInAppWebClient">>,
               <<"context.clientVersion", "1.0.0">>}
              \cup (IF Truthy(params.deviceId)
                    THEN {<<"deviceId", params.deviceId>>} ELSE {})
              \cup (IF Truthy(params.authorizationType)
                    THEN {<<"authorizationType", params.authorizationType>>} ELSE {})
              \cup (IF Truthy(params.customerIdentityToken)
                    THEN {<<"customerIdentityToken", params.customerIdentityToken>>}
                    ELSE {})
  IN MakeRequestStart([rq EXCEPT !.svc = "tokens.create", !.args = params],
                      ApiRoot \o "/authorization/" \o tokenType \o "/access-token",
                      "POST", {JsonContentType}, body, 0,
                      "tokens.create_" \o tokenType \o "_token")

(* A plausible slip: the operation passes a timeout in its options. *)
TokenContinueStartWithTimeout(rq, token) ==
  MakeRequestStart([rq EXCEPT !.svc = "tokens.continue", !.args = [token |-> token]],
                   ApiRoot \o "/authorization/continuation-access-token",
                   "GET", {Bearer(token)}, {}, 5000, "tokens.refresh_token")

(* continue up to its await: method and headers only, no timeout. *)
TokenContinueStart(rq, token) ==
  MakeRequestStart([rq EXCEPT !.svc = "tokens.continue", !.args = [token |-> token]],
                   ApiRoot \o "/authorization/continuation-access-token",
                   "GET", {Bearer(token)}, {}, 0, "tokens.refresh_token")

-----------------------------------------------------------------------------
(* ConversationService *)

ConversationCreateParamsSet ==
  [id : {Absent, "", "Conv-A"}, routingAttributes : {Absent, "attrs-1"}]

MessageParamsSet ==
  {[text |-> "", id |-> Absent, isNewSession |-> Absent,
    routingAttributes |-> Absent, language |-> Absent],
   [text |-> "", id |-> "Msg-1", isNewSession |-> "true",
    routingAttributes |-> "attrs-1", language |-> "en_US"],
   [text |-> "Hello world", id |-> Absent, isNewSession |-> Absent,
    routingAttributes |-> Absent, language |-> Absent],
   [text |-> "Hello world", id |-> "Msg-1", isNewSession |-> "true",
    routingAttributes |-> "attrs-1", language |-> "en_US"],
   [text |-> "Hello world", id |-> Absent, isNewSession |-> "false",
    routingAttributes |-> Absent, language |-> ""]}

(* A plausible slip: the generated identifier is not lower-cased. *)
ConversationCreateStartRawUuid(rq, token, params, uuid) ==
  LET conversationId == OrElse(params.id, uuid) IN
  MakeRequestStart(
    [rq EXCEPT !.svc = "conversations.create",
               !.args = [token |-> token, params |-> params,
                         conversationId |-> conversationId]],
    ApiRoot \o "/conversation", "POST", {Bearer(token), JsonContentType},
    {<<"conversationId", conversationId>>, <<"esDeveloperName", DeveloperName>>}
      \cup (IF Truthy(params.routingAttributes)
            THEN {<<"routingAttributes", params.routingAttributes>>} ELSE {}),
    0, "conversations.create_conversation")

(* create up to its await: `params.id || randomUUID().toLowerCase()` is    *)
(* both sent in the body and kept for the return value.                    *)
ConversationCreateStart(rq, token, params, uuid) ==
  LET conversationId == OrElse(params.id, ToLowerCase(uuid)) IN
  MakeRequestStart(
    [rq EXCEPT !.svc = "conversations.create",
               !.args = [token |-> token, params |-> params,
                         conversationId |-> conversationId]],
    ApiRoot \o "/conversation", "POST", {Bearer(token), JsonContentType},
    {<<"conversationId", conversationId>>, <<"esDeveloperName", DeveloperName>>}
      \cup (IF Truthy(params.routingAttributes)
            THEN {<<"routingAttributes", params.routingAttributes>>} ELSE {}),
    0, "conversations.create_conversation")

ConversationCloseStart(rq, token, conversationId) ==
  MakeRequestStart(
    [rq EXCEPT !.svc = "conversations.close",
               !.args = [token |-> token, conversationId |-> conversationId]],
    ApiRoot \o "/conversation/" \o conversationId \o "?esDeveloperName=" \o DeveloperName,
    "DELETE", {Bearer(token)}, {}, 0, "conversations.close_conversation")

ConversationEndSessionStart(rq, token, conversationId) ==
  MakeRequestStart(
    [rq EXCEPT !.svc = "conversations.endSession",
               !.args = [token |-> token, conversationId |-> conversationId]],
    ApiRoot \o "/conversation/" \o conversationId \o "/session?esDeveloperName="
            \o DeveloperName,
    "DELETE", {Bearer(token)}, {}, 0, "conversations.end_conversation_session")

ConversationStatusStart(rq, token, conversationId) ==
  MakeRequestStart(
    [rq EXCEPT !.svc = "conversations.status",
               !.args = [token |-> token, conversationId |-> conversationId]],
    ApiRoot \o "/conversation/" \o conversationId,
    "GET", {Bearer(token)}, {}, 0, "conversations.retrieve_routing_status")

(* A plausible slip: the text guard is missing. *)
SendMessageStartNoGuard(rq, token, conversationId, params, uuid) ==
  MakeRequestStart(
    [rq EXCEPT !.svc = "conversations.sendMessage",
               !.args = [token |-> token, conversationId |-> conversationId,
                         params |-> params]],
    ApiRoot \o "/conversation/" \o conversationId \o "/message",
    "POST", {JsonContentType, Bearer(token)},
    {<<"message.id", OrElse(params.id, ToLowerCase(uuid))>>,
     <<"message.messageType", "StaticContentMessage">>,
     <<"message.staticContent.formatType", "Text">>,
     <<"message.staticContent.text", params.text>>,
     <<"esDeveloperName", DeveloperName>>,
     <<"isNewMessagingSession", params.isNewSession>>}
      \cup (IF Truthy(params.routingAttributes)
            THEN {<<"routingAttributes", params.routingAttributes>>} ELSE {})
      \cup (IF Truthy(params.language)
            THEN {<<"language", params.language>>} ELSE {}),
    0, "conversations.send_message")

(* A plausible slip: the message id is always generated and the optional   *)
(* members are always written.                                             *)
SendMessageStartFixedEnvelope(rq, token, conversationId, params, uuid) ==
  IF ~Truthy(params.text)
  THEN [rq EXCEPT !.pc = "done", !.svc = "conversations.sendMessage",
                  !.args = [token |-> token, conversationId |-> conversationId,
                            params |-> params],
                  !.result = "rejected",
                  !.err = [name |-> "Error", message |-> "Message text is required",
                           statusCode |-> 0, operation |-> Absent, type |-> Absent]]
  ELSE MakeRequestStart(
    [rq EXCEPT !.svc = "conversations.sendMessage",
               !.args = [token |-> token, conversationId |-> conversationId,
                         params |-> params]],
    ApiRoot \o "/conversation/" \o conversationId \o "/message",
    "POST", {JsonContentType, Bearer(token)},
    {<<"message.id", ToLowerCase(uuid)>>,
     <<"message.messageType", "StaticContentMessage">>,
     <<"message.staticContent.formatType", "Text">>,
     <<"message.staticContent.text", params.text>>,
     <<"esDeveloperName", DeveloperName>>,
     <<"isNewMessagingSession", OrElse(params.isNewSession, "false")>>,
     <<"routingAttributes", OrElse(params.routingAttributes, "")>>,
     <<"language", OrElse(params.language, "en_US")>>},
    0, "conversations.send_message")

(* sendMessage up to its await: `if (!params.text) throw ...` rejects the  *)
(* call before makeRequest is reached.                                     *)
SendMessageStart(rq, token, conversationId, params, uuid) ==
  IF ~Truthy(params.text)
  THEN [rq EXCEPT !.pc = "done", !.svc = "conversations.sendMessage",
                  !.args = [token |-> token, conversationId |-> conversationId,
                            params |-> params],
                  !.result = "rejected",
                  !.err = [name |-> "Error", message |-> "Message text is required",
                           statusCode |-> 0, operation |-> Absent, type |-> Absent]]
  ELSE MakeRequestStart(
    [rq EXCEPT !.svc = "conversations.sendMessage",
               !.args = [token |-> token, conversationId |-> conversationId,
                         params |-> params]],
    ApiRoot \o "/conversation/" \o conversationId \o "/message",
    "POST", {JsonContentType, Bearer(token)},
    {<<"message.id", OrElse(params.id, ToLowerCase(uuid))>>,
     <<"message.messageType", "StaticContentMessage">>,
     <<"message.staticContent.formatType", "Text">>,
     <<"message.staticContent.text", params.text>>,
     <<"esDeveloperName", DeveloperName>>,
     <<"isNewMessagingSession", params.isNewSession>>}
      \cup (IF Truthy(params.routingAttributes)
            THEN {<<"routingAttributes", params.routingAttributes>>} ELSE {})
      \cup (IF Truthy(params.language)
            THEN {<<"language", params.language>>} ELSE {}),
    0, "conversations.send_message")

SendTypingIndicatorStart(rq, token, conversationId, isTyping, uuid) ==
  MakeRequestStart(
    [rq EXCEPT !.svc = "conversations.sendTypingIndicator",
               !.args = [token |-> token, conversationId |-> conversationId,
                         isTyping |-> isTyping]],
    ApiRoot \o "/conversation/" \o conversationId \o "/entry",
    "POST", {JsonContentType, Bearer(token)},
    {<<"entryType", IF isTyping THEN "TypingStartedIndicator"
                    ELSE "TypingStoppedIndicator">>,
     <<"id", ToLowerCase(uuid)>>},
    0, "conversations.typing_indicator")

ReceiptParamsSet ==
  {[entries |-> <<>>],
   [entries |-> <<[id |-> Absent, type |-> Absent, conversationEntryId |-> "e1"]>>],
   [entries |-> <<[id |-> "Rcpt-1", type |-> "Read", conversationEntryId |-> "e1"],
                  [id |-> Absent, type |-> Absent, conversationEntryId |-> "e2"]>>]}

SendReceiptsStart(rq, token, conversationId, params, uuids) ==
  MakeRequestStart(
    [rq EXCEPT !.svc = "conversations.sendReceipts",
               !.args = [token |-> token, conversationId |-> conversationId,
                         params |-> params]],
    ApiRoot \o "/conversation/" \o conversationId \o "/acknowledge-entries",
    "POST", {JsonContentType, Bearer(token)},
    {<<"acks.length", ToString(Len(params.entries))>>}
      \cup UNION {
        {<<"acks." \o ToString(i) \o ".id",
           OrElse(params.entries[i].id, ToLowerCase(uuids[i]))>>,
         <<"acks." \o ToString(i) \o ".entryType",
           OrElse(params.entries[i].type, "Delivery")>>,
         <<"acks." \o ToString(i) \o ".conversationEntryId",
           params.entries[i].conversationEntryId>>} : i \in 1..Len(params.entries)},
    0, "conversations.sending_receipts")

ListParamsSet ==
  {[limit |-> Absent, startTimestamp |-> Absent, endTimestamp |-> Absent,
    direction |-> Absent, entryTypeFilter |-> <<>>, hasFilter |-> FALSE],
   [limit |-> "10", startTimestamp |-> Absent, endTimestamp |-> Absent,
    direction |-> "FromEnd", entryTypeFilter |-> <<"Message", "RoutingResult">>,
    hasFilter |-> TRUE]}

RECURSIVE Join(_, _)
(* Array.prototype.join *)
Join(seq, sep) ==
  IF Len(seq) = 0 THEN ""
  ELSE IF Len(seq) = 1 THEN seq[1]
  ELSE seq[1] \o sep \o Join(Tail(seq), sep)

(* The query of list: the defined members, in the order of the object       *)
(* literal, as URLSearchParams.toString() writes them (',' becomes %2C).    *)
ListQuery(params) ==
  LET all == <<<<"limit", params.limit>>,
               <<"startTimestamp", params.startTimestamp>>,
               <<"endTimestamp", params.endTimestamp>>,
               <<"direction", params.direction>>,
               <<"entryTypeFilter",
                 IF params.hasFilter THEN Join(params.entryTypeFilter, "%2C")
                 ELSE Absent>> >>
      defined == SelectSeq(all, LAMBDA kv : kv[2] # Absent)
  IN Join([i \in 1..Len(defined) |-> defined[i][1] \o "=" \o defined[i][2]], "&")

ListStart(rq, token, conversationId, params) ==
  MakeRequestStart(
    [rq EXCEPT !.svc = "conversations.list",
               !.args = [token |-> token, conversationId |-> conversationId,
                         params |-> params]],
    ApiRoot \o "/conversation/" \o conversationId \o "/entries?" \o ListQuery(params),
    "GET", {Bearer(token)}, {}, 0, "conversations.list_entries")

(* A plausible slip: only message entries are kept. *)
transformListResponseMessagesOnly(response) ==
  LET es == SelectSeq(response.conversationEntries,
                      LAMBDA e : e.entryType = "Message") IN
  [id |-> IF Len(response.conversationEntries) > 0
          THEN OrElse(response.conversationEntries[1].identifier, "") ELSE "",
   entries |-> [i \in 1..Len(es) |->
                  [id |-> es[i].identifier,
                   type |-> es[i].entryType,
                   text |-> es[i].entryPayload,
                   timestamp |-> ToISOString(es[i].clientTimestamp),
                   sender |-> [id |-> es[i].subject, type |-> es[i].role]]]]

(* A plausible slip: the id is taken from the last entry of the page. *)
transformListResponseLast(response) ==
  LET es == response.conversationEntries IN
  [id |-> IF Len(es) > 0 THEN OrElse(es[Len(es)].identifier, "") ELSE "",
   entries |-> [i \in 1..Len(es) |->
                  [id |-> es[i].identifier,
                   type |-> es[i].entryType,
                   text |-> es[i].entryPayload,
                   timestamp |-> ToISOString(es[i].clientTimestamp),
                   sender |-> [id |-> es[i].subject, type |-> es[i].role]]]]

(* transformListResponse: `conversationEntries[0]?.identifier || ''` and   *)
(* one mapped entry per wire entry, in wire order.                         *)
transformListResponse(response) ==
  LET es == response.conversationEntries IN
  [id |-> IF Len(es) > 0 THEN OrElse(es[1].identifier, "") ELSE "",
   entries |-> [i \in 1..Len(es) |->
                  [id |-> es[i].identifier,
                   type |-> es[i].entryType,
                   text |-> es[i].entryPayload,
                   timestamp |-> ToISOString(es[i].clientTimestamp),
                   sender |-> [id |-> es[i].subject, type |-> es[i].role]]]]

(* An error thrown by the operation itself after makeRequest returned:     *)
(* it rejects the call and is not logged.                                  *)
Thrown(name, message) ==
  [name |-> name, message |-> message, statusCode |-> 0,
   operation |-> Absent, type |-> Absent]

(* A plausible slip: sendMessage normalises the last entry of the response *)
(* and fills the sender from the caller.                                   *)
ContinuationLastEntry(rq, body) ==
  LET resolve(v) == [rq EXCEPT !.result = "resolved", !.value = v]
      reject(e) == [rq EXCEPT !.result = "rejected", !.err = e]
  IN
  IF rq.svc \in JsonServices /\ body = NoBody
  THEN reject(Thrown("SyntaxError", "Unexpected end of JSON input"))
  ELSE IF rq.svc \in {"tokens.create", "tokens.continue"}
  THEN resolve([accessToken |-> body.accessToken, lastEventId |-> body.lastEventId])
  ELSE IF rq.svc = "conversations.create"
  THEN resolve([id |-> rq.args.conversationId])
  ELSE IF rq.svc = "conversations.status"
  THEN resolve([id |-> rq.args.conversationId, status |-> body.routingStatus,
                lastActivityTimestamp |-> "now", isActive |-> TRUE])
  ELSE IF rq.svc = "conversations.sendMessage"
  THEN IF Len(body.conversationEntries) = 0
       THEN reject(Thrown("TypeError", "Cannot read properties of undefined"))
       ELSE resolve([id |-> body.conversationEntries[Len(body.conversationEntries)].id,
                     type |-> "Message",
                     text |-> rq.args.params.text,
                     timestamp |-> ToISOString(body.conversationEntries[1].clientTimestamp),
                     sender |-> [id |-> rq.args.token, type |-> "endUser"]])
  ELSE IF rq.svc = "conversations.list"
  THEN resolve(transformListResponse(body))
  ELSE IF rq.svc = "makeRequest"
  THEN resolve([status |-> rq.status, body |-> body])
  ELSE resolve([success |-> TRUE])

(* What the operation does with the response makeRequest returned. *)
Continuation(rq, body) ==
  LET resolve(v) == [rq EXCEPT !.result = "resolved", !.value = v]
      reject(e) == [rq EXCEPT !.result = "rejected", !.err = e]
  IN
  IF rq.svc \in JsonServices /\ body = NoBody
  THEN reject(Thrown("SyntaxError", "Unexpected end of JSON input"))
  ELSE IF rq.svc \in {"tokens.create", "tokens.continue"}
  THEN resolve([accessToken |-> body.accessToken, lastEventId |-> body.lastEventId])
  ELSE IF rq.svc = "conversations.create"
  THEN resolve([id |-> rq.args.conversationId])
  ELSE IF rq.svc = "conversations.status"
  THEN resolve([id |-> rq.args.conversationId, status |-> body.routingStatus,
                lastActivityTimestamp |-> "now", isActive |-> TRUE])
  ELSE IF rq.svc = "conversations.sendMessage"
  THEN IF Len(body.conversationEntries) = 0
       THEN reject(Thrown("TypeError", "Cannot read properties of undefined"))
       ELSE resolve([id |-> body.conversationEntries[1].id,
                     type |-> "Message",
                     text |-> rq.args.params.text,
                     timestamp |-> ToISOString(body.conversationEntries[1].clientTimestamp),
                     sender |-> [id |-> "user", type |-> "endUser"]])
  ELSE IF rq.svc = "conversations.list"
  THEN resolve(transformListResponse(body))
  ELSE IF rq.svc = "makeRequest"
  THEN resolve([status |-> rq.status, body |-> body])
  ELSE resolve([success |-> TRUE])

(* A plausible slip: no `finally { clearTimeout(timeoutId) }`, so the timer *)
(* stays armed after the response was returned.                            *)
MakeRequestResponseKeepsTimer(rq, status, body) ==
  IF ~IsOk(status)
  THEN [MakeRequestStatusError(rq, status) EXCEPT !.timer = rq.timer]
  ELSE Continuation([rq EXCEPT !.pc = "done", !.status = status, !.response = body,
                               !.outcome = "response"], body)

(* A plausible slip: the `if (!response.ok)` check is missing. *)
MakeRequestResponseNoOkCheck(rq, status, body) ==
  Continuation([rq EXCEPT !.pc = "done", !.status = status, !.response = body,
                          !.outcome = "response", !.timer = FALSE], body)

(* makeRequest from the point fetch resolved with a response: a non-ok     *)
(* status is turned into the classified error, an ok one is returned to    *)
(* the operation, which then finishes.                                     *)
MakeRequestResponse(rq, status, body) ==
  IF ~IsOk(status)
  THEN MakeRequestStatusError(rq, status)
  ELSE Continuation([rq EXCEPT !.pc = "done", !.status = status, !.response = body,
                               !.outcome = "response", !.timer = FALSE], body)

(* A plausible slip: the catch block logs and returns instead of           *)
(* rethrowing, so the operation carries on as after a response.            *)
MakeRequestFailureSwallow(rq) ==
  Continuation([rq EXCEPT !.pc = "done", !.outcome = "transport_error",
                          !.errorLogs = @ + 1], NoBody)

(* A plausible slip: the catch block issues the request again. *)
MakeRequestFailureRetry(rq) ==
  IF rq.fetches < 2
  THEN [rq EXCEPT !.fetches = @ + 1]
  ELSE MakeRequestTransportError(rq)

(* makeRequest from the point fetch rejected with a network error. *)
MakeRequestFailure(rq) == MakeRequestTransportError(rq)

-----------------------------------------------------------------------------
(* The callers: one action per public operation; each takes the next slot   *)
(* of the call table.                                                       *)

(* A plausible slip: the service remembers the bearer token of the call. *)
StartRemembering(rq) ==
  /\ nreq' = nreq + 1
  /\ reqs' = [reqs EXCEPT ![nreq + 1] = rq]
  /\ clients' = [i \in DOMAIN clients |->
                   [clients[i] EXCEPT !.stored =
                      @ \cup {h[2] : h \in {x \in rq.headers : x[1] = "Authorization"}}]]
  /\ UNCHANGED <<streams, nstreams>>

Start(rq) ==
  /\ nreq' = nreq + 1
  /\ reqs' = [reqs EXCEPT ![nreq + 1] = rq]
  /\ UNCHANGED <<streams, nstreams, clients>>

TokensCreate ==
  /\ nreq < MaxReq
  /\ \E params \in TokenCreateParamsSet : Start(TokenCreateStart(IdleReq, params))

TokensContinue ==
  /\ nreq < MaxReq
  /\ \E token \in Tokens : Start(TokenContinueStart(IdleReq, token))

ConversationsCreate ==
  /\ nreq < MaxReq
  /\ \E token \in Tokens, params \in ConversationCreateParamsSet, uuid \in RawUuids :
       Start(ConversationCreateStart(IdleReq, token, params, uuid))

ConversationsClose ==
  /\ nreq < MaxReq
  /\ \E token \in Tokens, id \in ConvIds : Start(ConversationCloseStart(IdleReq, token, id))

ConversationsEndSession ==
  /\ nreq < MaxReq
  /\ \E token \in Tokens, id \in ConvIds :
       Start(ConversationEndSessionStart(IdleReq, token, id))

ConversationsStatus ==
  /\ nreq < MaxReq
  /\ \E token \in Tokens, id \in ConvIds : Start(ConversationStatusStart(IdleReq, token, id))

ConversationsSendMessage ==
  /\ nreq < MaxReq
  /\ \E token \in Tokens, id \in ConvIds, params \in MessageParamsSet, uuid \in RawUuids :
       Start(SendMessageStart(IdleReq, token, id, params, uuid))

ConversationsSendTypingIndicator ==
  /\ nreq < MaxReq
  /\ \E token \in Tokens, id \in ConvIds, isTyping \in BOOLEAN, uuid \in RawUuids :
       Start(SendTypingIndicatorStart(IdleReq, token, id, isTyping, uuid))

ConversationsSendReceipts ==
  /\ nreq < MaxReq
  /\ \E token \in Tokens, id \in ConvIds, params \in ReceiptParamsSet,
        uuids \in [1..2 -> RawUuids] :
       Start(SendReceiptsStart(IdleReq, token, id, params, uuids))

ConversationsList ==
  /\ nreq < MaxReq
  /\ \E token \in Tokens, id \in ConvIds, params \in ListParamsSet :
       Start(ListStart(IdleReq, token, id, params))

(* A plausible slip: fetchOptions lacks `signal: controller.signal`, so a   *)
(* fetch whose controller was aborted still delivers its response.         *)
FetchResolvesUnsignalled(r) ==
  /\ reqs[r].pc = "inflight"
  /\ \E status \in Statuses :
       \E body \in Bodies(reqs[r].svc, status) :
         reqs' = [reqs EXCEPT ![r] = MakeRequestResponse(@, status, body)]
  /\ UNCHANGED <<streams, nstreams, nreq, clients>>

(* The remote service answers the request of call r: fetch resolves, which *)
(* it cannot after its signal was aborted.                                 *)
FetchResolves(r) ==
  /\ reqs[r].pc = "inflight" /\ ~reqs[r].aborted
  /\ \E status \in Statuses :
       \E body \in Bodies(reqs[r].svc, status) :
         reqs' = [reqs EXCEPT ![r] = MakeRequestResponse(@, status, body)]
  /\ UNCHANGED <<streams, nstreams, nreq, clients>>

(* The request of call r fails without a response. *)
FetchRejects(r) ==
  /\ reqs[r].pc = "inflight" /\ ~reqs[r].aborted
  /\ reqs' = [reqs EXCEPT ![r] = MakeRequestFailure(@)]
  /\ UNCHANGED <<streams, nstreams, nreq, clients>>

InitReq ==
  /\ reqs = [r \in ReqIds |-> IdleReq]
  /\ nreq = 0

NextReq ==
  \/ TokensCreate
  \/ TokensContinue
  \/ ConversationsCreate
  \/ ConversationsClose
  \/ ConversationsEndSession
  \/ ConversationsStatus
  \/ ConversationsSendMessage
  \/ ConversationsSendTypingIndicator
  \/ ConversationsSendReceipts
  \/ ConversationsList
  \/ \E r \in ReqIds : FetchResolves(r)
  \/ \E r \in ReqIds : FetchRejects(r)

-----------------------------------------------------------------------------
(* A caller that uses makeRequest directly and may pass options.timeout;    *)
(* a timeout of 0 stands for "none given" (`timeout ? setTimeout(...) :     *)
(* null` treats both alike).                                                *)

RequestOptionsSet ==
  {[url |-> ApiRoot \o "/conversation/c1", method |-> "GET", body |-> {},
    timeout |-> 0],
   [url |-> ApiRoot \o "/conversation", method |-> "POST", body |-> {<<"k", "v">>},
    timeout |-> 5000]}

MakeRequestCall ==
  /\ nreq < MaxCalls
  /\ \E options \in RequestOptionsSet, operation \in {"custom.op_a", "custom.op_b"} :
       Start(MakeRequestStart([IdleReq EXCEPT !.svc = "makeRequest"],
                              options.url, options.method, {}, options.body,
                              options.timeout, operation))

(* A plausible slip: one AbortController at module level, shared by all    *)
(* calls, so that the timer of one call aborts every pending fetch.        *)
TimerFiresSharedController(r) ==
  /\ reqs[r].timer
  /\ reqs' = [q \in ReqIds |->
               IF q = r THEN [reqs[q] EXCEPT !.aborted = TRUE, !.timer = FALSE]
               ELSE IF reqs[q].pc = "inflight" THEN [reqs[q] EXCEPT !.aborted = TRUE]
               ELSE reqs[q]]
  /\ UNCHANGED <<streams, nstreams, nreq, clients>>

(* The callback of setTimeout(() => controller.abort(), timeout) runs: it   *)
(* can whenever the timer of the call is armed, and aborts the controller   *)
(* that call created.                                                       *)
TimerFires(r) ==
  /\ reqs[r].timer
  /\ reqs' = [reqs EXCEPT ![r].aborted = TRUE, ![r].timer = FALSE]
  /\ UNCHANGED <<streams, nstreams, nreq, clients>>

(* The aborted fetch rejects with an AbortError. *)
FetchAborts(r) ==
  /\ reqs[r].pc = "inflight" /\ reqs[r].aborted
  /\ reqs' = [reqs EXCEPT ![r] = MakeRequestTimeoutError(@)]
  /\ UNCHANGED <<streams, nstreams, nreq, clients>>

NextTimeout ==
  \/ MakeRequestCall
  \/ \E r \in ReqIds : TimerFires(r)
  \/ \E r \in ReqIds : FetchAborts(r)
  \/ \E r \in ReqIds : FetchResolves(r)
  \/ \E r \in ReqIds : FetchRejects(r)

-----------------------------------------------------------------------------
(* Specifications *)

-----------------------------------------------------------------------------
(* MessagingInAppWebClient: the constructor. clients is the list of the    *)
(* constructions attempted so far, each with what it threw, what it logged *)
(* and the services it created. stored is what the client and its services *)
(* keep besides the configuration and the logger: their fields are         *)
(* baseUrl, orgId, developerName and logger, so it is empty.               *)

REQUIRED_CONFIG == <<"baseUrl", "orgId", "developerName">>

(* A member the configuration object does not have at all, as opposed to   *)
(* one it has with the value undefined (Absent).                           *)
NoKey == "<no key>"

NoConfig ==
  [given |-> FALSE, baseUrl |-> NoKey, orgId |-> NoKey, developerName |-> NoKey,
   logger |-> NoKey]

ConfigSet ==
  {NoConfig} \cup
  [given : {TRUE}, baseUrl : {NoKey, Absent, BaseUrl}, orgId : {NoKey, Absent, OrgId},
   developerName : {NoKey, Absent, DeveloperName}, logger : {NoKey, "custom-logger"}]

(* `param in config` *)
In(param, config) == config[param] # NoKey

RECURSIVE FirstNotIn(_, _)
(* The parameter at which `for (const param of REQUIRED_CONFIG)` throws,   *)
(* Absent when the loop runs to its end.                                   *)
FirstNotIn(params, config) ==
  IF Len(params) = 0 THEN Absent
  ELSE IF ~In(Head(params), config) THEN Head(params)
  ELSE FirstNotIn(Tail(params), config)

FailedClient(config, message) ==
  [config |-> config, thrown |-> message, logger |-> Absent, infoLogs |-> 0,
   services |-> {}, stored |-> {}]

(* A plausible slip: the client announces itself before it validates. *)
constructorLogsFirst(config) ==
  LET logger == IF config.logger = NoKey THEN "console" ELSE config.logger IN
  IF ~config.given
  THEN [FailedClient(config, "Missing client configuration.")
          EXCEPT !.logger = logger, !.infoLogs = 1]
  ELSE IF FirstNotIn(REQUIRED_CONFIG, config) # Absent
  THEN [FailedClient(config, "Missing configuration parameter: "
                               \o FirstNotIn(REQUIRED_CONFIG, config))
          EXCEPT !.logger = logger, !.infoLogs = 1]
  ELSE [config |-> config, thrown |-> Absent,
        logger |-> logger,
        infoLogs |-> 1,
        services |-> {"TokenService", "ConversationService", "EventService"},
        stored |-> {}]

constructor(config) ==
  IF ~config.given
  THEN FailedClient(config, "Missing client configuration.")
  ELSE IF FirstNotIn(REQUIRED_CONFIG, config) # Absent
  THEN FailedClient(config, "Missing configuration parameter: "
                              \o FirstNotIn(REQUIRED_CONFIG, config))
  ELSE [config |-> config, thrown |-> Absent,
        logger |-> IF config.logger = NoKey THEN "console" ELSE config.logger,
        infoLogs |-> 1,
        services |-> {"TokenService", "ConversationService", "EventService"},
        stored |-> {}]

Construct ==
  /\ Len(clients) < MaxClients
  /\ \E config \in ConfigSet : clients' = Append(clients, constructor(config))
  /\ UNCHANGED <<streams, nstreams, reqs, nreq>>

NextClient == Construct

-----------------------------------------------------------------------------

Init == InitStream /\ InitReq /\ clients = <<>>

Spec == Init /\ [][NextReq]_vars

SpecStream == Init /\ [][NextStream]_vars

SpecTimeout == Init /\ [][NextTimeout]_vars

SpecClient == Init /\ [][NextClient]_vars

(* The operations of a client that was constructed with a complete          *)
(* configuration.                                                           *)
DefaultConfig ==
  [given |-> TRUE, baseUrl |-> BaseUrl, orgId |-> OrgId,
   developerName |-> DeveloperName, logger |-> NoKey]

InitSession == InitStream /\ InitReq /\ clients = <<constructor(DefaultConfig)>>

SpecSession == InitSession /\ [][NextReq]_vars

-----------------------------------------------------------------------------
(* Properties *)

Called(r) == reqs[r].pc # "idle"

AuthenticatedUrl == ApiRoot \o "/authorization/authenticated/access-token"

UnauthenticatedUrl == ApiRoot \o "/authorization/unauthenticated/access-token"

(* C1: TokenService.create targets the authenticated endpoint exactly when *)
(* authorizationType and customerIdentityToken are both non-empty, and the *)
(* unauthenticated endpoint in every other case.                           *)
C1_AuthenticatedIffBothNonEmpty ==
  \A r \in ReqIds :
    (Called(r) /\ reqs[r].svc = "tokens.create") =>
      /\ reqs[r].url \in {AuthenticatedUrl, UnauthenticatedUrl}
      /\ (reqs[r].url = AuthenticatedUrl) <=> isAuthenticatedTokenConfigNonEmpty(reqs[r].args)

(* C2: on a transport disconnect the controller calls close() on the       *)
(* connection exactly once, and onEvent is not invoked for that stream     *)
(* afterwards.                                                             *)
C2_DisconnectClosesOnceNoLaterEvents ==
  \A s \in StreamIds :
    /\ streams[s].ctrlClose = streams[s].disconnects
    /\ streams[s].eventsAfterDisconnect = 0

C2_Witness ==
  \E s \in StreamIds :
    /\ streams[s].disconnects = 1 /\ streams[s].ctrlClose = 1
    /\ streams[s].onEventCalls > 0

C4_EmptyTokenFailsBeforeConnecting ==
  \A s \in StreamIds :
    (streams[s].called /\ streams[s].token = "") =>
      /\ streams[s].thrown = "Authentication token is required"
      /\ streams[s].state = "Idle"
      /\ streams[s].created = 0 /\ streams[s].fetches = 0
      /\ streams[s].connects = 0
      /\ streams[s].onOpenCalls = 0 /\ streams[s].onEventCalls = 0

C4_Witness ==
  \E s \in StreamIds :
    /\ streams[s].called /\ streams[s].token = ""
    /\ streams[s].options.onOpen /\ streams[s].thrown # ""

(* C5: sendMessage with empty text rejects with 'Message text is required' *)
(* and issues no request, whatever the token and the conversation id.      *)
C5_EmptyTextRejectedWithoutRequest ==
  \A r \in ReqIds :
    (Called(r) /\ reqs[r].svc = "conversations.sendMessage"
       /\ reqs[r].args.params.text = "") =>
      /\ reqs[r].pc = "done" /\ reqs[r].result = "rejected"
      /\ reqs[r].err.message = "Message text is required"
      /\ reqs[r].fetches = 0

C5_Witness ==
  \E r \in ReqIds :
    /\ reqs[r].svc = "conversations.sendMessage" /\ reqs[r].args.params.text = ""
    /\ reqs[r].result = "rejected" /\ reqs[r].args.params.id # Absent

(* C6: a connection error of the stream is reported by invoking            *)
(* options.onError when the caller provided it.                            *)
C6_ConnectionErrorReachesOnError ==
  \A s \in StreamIds :
    (streams[s].options.onError /\ streams[s].errors > 0) => streams[s].onErrorCalls > 0

(* C7: when the connection of a stream closes, by transport disconnect or  *)
(* by close() on the handle, options.onClose is invoked if provided.       *)
C7_CloseReachesOnClose ==
  \A s \in StreamIds :
    (streams[s].options.onClose /\ streams[s].state = "Closed") => streams[s].onCloseCalls > 0

(* C8: once close() has been called on the connection, by the caller or by *)
(* the disconnect handler, the stream is Closed and stays Closed through   *)
(* every further close() in either order; no call raises an error.         *)
C8_CloseIsIdempotent ==
  \A s \in StreamIds :
    (streams[s].userClose + streams[s].ctrlClose > 0) =>
      /\ streams[s].state = "Closed"
      /\ ~streams[s].timer
      /\ streams[s].thrown = ""

C8_Witness ==
  \E s \in StreamIds :
    /\ streams[s].userClose = 2 /\ streams[s].ctrlClose = 1
    /\ streams[s].state = "Closed"

(* C9: no operation retries: every invocation of a token or conversation   *)
(* operation issues at most one request, whatever its outcome.             *)
C9_AtMostOneRequestPerCall ==
  \A r \in ReqIds :
    /\ reqs[r].fetches <= 1
    /\ reqs[r].outcome # "none" => reqs[r].fetches = 1

C9_Witness ==
  \E r \in ReqIds :
    /\ reqs[r].pc = "done" /\ reqs[r].outcome = "transport_error"
    /\ reqs[r].fetches = 1

(* The status table of the specification *)
SpecCategory(status) ==
  CASE status = 400 -> "invalid_request"
    [] status = 401 -> "authentication_error"
    [] status = 403 -> "permission_error"
    [] status = 404 -> "not_found"
    [] status = 409 -> "conflict"
    [] status = 429 -> "rate_limit_error"
    [] status = 500 -> "api_error"
    [] OTHER -> "unknown_error"

(* C10: on a non-success status makeRequest builds an error carrying the   *)
(* status code, the operation name and the category of the status table,   *)
(* logs it at error severity exactly once and rejects with that error; it  *)
(* never resolves with the failed response.                                *)
C10_NonSuccessStatusRejectsClassified ==
  \A r \in ReqIds :
    (reqs[r].status # 0 /\ ~IsOk(reqs[r].status)) =>
      /\ reqs[r].pc = "done" /\ reqs[r].result = "rejected"
      /\ reqs[r].outcome = "status_error"
      /\ reqs[r].err.statusCode = reqs[r].status
      /\ reqs[r].err.operation = reqs[r].operation
      /\ reqs[r].err.type = SpecCategory(reqs[r].status)
      /\ reqs[r].errorLogs = 1 /\ reqs[r].logged = reqs[r].err

C10_Witness ==
  \E r \in ReqIds :
    /\ reqs[r].status = 404 /\ reqs[r].result = "rejected"
    /\ reqs[r].err.type = "not_found" /\ reqs[r].errorLogs = 1

(* C11: when the configured timeout elapses before the response arrives   *)
(* the request is aborted and makeRequest rejects with the timeout error:  *)
(* type 'timeout_error', the operation name, no status code; never a       *)
(* generic transport error or a status-classified one.                     *)
C11_TimeoutRejectsWithTimeoutError ==
  \A r \in ReqIds :
    reqs[r].aborted =>
      /\ reqs[r].timeout > 0
      /\ reqs[r].pc = "done" =>
           /\ reqs[r].result = "rejected"
           /\ reqs[r].outcome = "timeout_error"
           /\ reqs[r].err.type = "timeout_error"
           /\ reqs[r].err.operation = reqs[r].operation
           /\ reqs[r].err.statusCode = 0
           /\ reqs[r].status = 0

C11_Witness ==
  \E r \in ReqIds :
    /\ reqs[r].aborted /\ reqs[r].pc = "done"
    /\ reqs[r].err.type = "timeout_error" /\ reqs[r].operation = "custom.op_b"

(* C12: the classifier maps 400, 401, 403, 404, 409, 429 and 500 to their  *)
(* categories and every other status to unknown_error, and the category    *)
(* depends on the status alone.                                            *)
C12_StatusTable ==
  /\ \A r \in ReqIds :
       reqs[r].outcome = "status_error" =>
         LET st == reqs[r].status
             t == reqs[r].err.type
         IN /\ st = 400 => t = "invalid_request"
            /\ st = 401 => t = "authentication_error"
            /\ st = 403 => t = "permission_error"
            /\ st = 404 => t = "not_found"
            /\ st = 409 => t = "conflict"
            /\ st = 429 => t = "rate_limit_error"
            /\ st = 500 => t = "api_error"
            /\ st \notin {400, 401, 403, 404, 409, 429, 500} => t = "unknown_error"
  /\ \A r1, r2 \in ReqIds :
       (reqs[r1].outcome = "status_error" /\ reqs[r2].outcome = "status_error"
          /\ reqs[r1].status = reqs[r2].status) =>
         reqs[r1].err.type = reqs[r2].err.type

C12_Witness ==
  \E r \in ReqIds :
    /\ reqs[r].outcome = "status_error" /\ reqs[r].status = 429
    /\ reqs[r].err.type = "rate_limit_error"

SuccessServices ==
  {"conversations.close", "conversations.endSession",
   "conversations.sendTypingIndicator", "conversations.sendReceipts"}

(* C13: close, endSession, sendTypingIndicator and sendReceipts resolve to *)
(* {success: true} exactly when their one request returned a success       *)
(* status; on every other outcome they reject; they never resolve to a     *)
(* value with success false.                                               *)
C13_SuccessTrueIffOkStatus ==
  \A r \in ReqIds :
    (reqs[r].svc \in SuccessServices /\ reqs[r].pc = "done") =>
      /\ reqs[r].fetches = 1
      /\ reqs[r].result \in {"resolved", "rejected"}
      /\ (reqs[r].result = "resolved") <=>
           (reqs[r].outcome = "response" /\ IsOk(reqs[r].status))
      /\ reqs[r].result = "resolved" => reqs[r].value = [success |-> TRUE]

C13_Witness ==
  \E r \in ReqIds :
    /\ reqs[r].svc = "conversations.endSession" /\ reqs[r].pc = "done"
    /\ reqs[r].status = 204 /\ reqs[r].value = [success |-> TRUE]

GeneratedIds == {ToLowerCase(u) : u \in RawUuids}

(* The value sent under a key of the JSON body *)
Sent(rq, key) == {p[2] : p \in {q \in JsonStringify(rq.body) : q[1] = key}}

(* C15: create resolves to {id} where id is the conversationId sent in the *)
(* request body: params.id when the caller supplied one (a non-empty       *)
(* string), otherwise a generated lower-cased identifier; the response of  *)
(* the service never changes it.                                           *)
C15_CreateReturnsSentConversationId ==
  \A r \in ReqIds :
    (reqs[r].svc = "conversations.create" /\ Called(r)) =>
      LET params == reqs[r].args.params IN
      /\ Sent(reqs[r], "conversationId") =
           {IF Truthy(params.id) THEN params.id ELSE "9b1d-aa"}
      /\ ~Truthy(params.id) =>
           /\ Sent(reqs[r], "conversationId") \subseteq GeneratedIds
           /\ \A i \in Sent(reqs[r], "conversationId") : ToLowerCase(i) = i
      /\ reqs[r].result = "resolved" =>
           /\ Sent(reqs[r], "conversationId") = {reqs[r].value.id}
           /\ reqs[r].value = [id |-> reqs[r].value.id]

C15_Witness ==
  \E r \in ReqIds :
    /\ reqs[r].svc = "conversations.create" /\ reqs[r].result = "resolved"
    /\ reqs[r].args.params.id = Absent
    /\ reqs[r].response = [kind |-> "created", conversationId |-> "server-id"]
    /\ reqs[r].value.id = "9b1d-aa"

(* create() and create({}) *)
NoOptionalFields(params) ==
  /\ params.deviceId = Absent
  /\ params.authorizationType = Absent
  /\ params.customerIdentityToken = Absent

(* C16: TokenService.create with no optional fields sends one POST to the  *)
(* unauthenticated endpoint whose body is exactly orgId, esDeveloperName,  *)
(* capabilitiesVersion '1', platform 'Web' and the default context, with   *)
(* no deviceId, authorizationType or customerIdentityToken key, and        *)
(* resolves to the accessToken and lastEventId of the success response.    *)
C16_DefaultTokenRequest ==
  \A r \in ReqIds :
    (reqs[r].svc = "tokens.create" /\ Called(r)
       /\ NoOptionalFields(reqs[r].args)) =>
      /\ reqs[r].fetches = 1
      /\ reqs[r].method = "POST"
      /\ reqs[r].url = UnauthenticatedUrl
      /\ reqs[r].body = {<<"orgId", OrgId>>,
                         <<"esDeveloperName", DeveloperName>>,
                         <<"capabilitiesVersion", "1">>,
                         <<"platform", "Web">>,
                         <<"context.appName", "MessagingInAppWebClient">>,
                         <<"context.clientVersion", "1.0.0">>}
      /\ \A k \in {"deviceId", "authorizationType", "customerIdentityToken"} :
           Sent(reqs[r], k) = {}
      /\ (reqs[r].pc = "done" /\ reqs[r].outcome = "response"
            /\ reqs[r].response \in TokenBodies) =>
           /\ reqs[r].result = "resolved"
           /\ reqs[r].value = [accessToken |-> reqs[r].response.accessToken,
                               lastEventId |-> reqs[r].response.lastEventId]

C16_Witness ==
  \E r \in ReqIds :
    /\ reqs[r].svc = "tokens.create" /\ ~reqs[r].args.given
    /\ reqs[r].result = "resolved"
    /\ reqs[r].value = [accessToken |-> "other-token", lastEventId |-> "41"]

(* C17: for every non-empty text sendMessage sends one POST to             *)
(* /conversation/{conversationId}/message whose body has                   *)
(* message.staticContent.text = params.text, messageType                   *)
(* 'StaticContentMessage', formatType 'Text' and message.id = params.id    *)
(* when the caller gave one, else a generated lower-cased identifier;      *)
(* routingAttributes, language and isNewMessagingSession appear only when  *)
(* the caller supplied them.                                               *)
C17_SendMessageEnvelope ==
  \A r \in ReqIds :
    (reqs[r].svc = "conversations.sendMessage" /\ Called(r)
       /\ Truthy(reqs[r].args.params.text)) =>
      LET params == reqs[r].args.params IN
      /\ reqs[r].fetches = 1
      /\ reqs[r].method = "POST"
      /\ reqs[r].url = ApiRoot \o "/conversation/" \o reqs[r].args.conversationId
                               \o "/message"
      /\ Sent(reqs[r], "message.staticContent.text") = {params.text}
      /\ Sent(reqs[r], "message.messageType") = {"StaticContentMessage"}
      /\ Sent(reqs[r], "message.staticContent.formatType") = {"Text"}
      /\ Sent(reqs[r], "message.id") =
           (IF Truthy(params.id) THEN {params.id} ELSE GeneratedIds)
      /\ Sent(reqs[r], "routingAttributes") \subseteq {params.routingAttributes} \ {Absent}
      /\ Sent(reqs[r], "language") \subseteq {params.language} \ {Absent}
      /\ Sent(reqs[r], "isNewMessagingSession") \subseteq {params.isNewSession} \ {Absent}

C17_Witness ==
  \E r \in ReqIds :
    /\ reqs[r].svc = "conversations.sendMessage" /\ reqs[r].pc = "inflight"
    /\ reqs[r].args.params.text = "Hello world"
    /\ reqs[r].args.params.id = Absent
    /\ reqs[r].args.params.isNewSession = "false"
    /\ Sent(reqs[r], "message.id") = {"9b1d-aa"}
    /\ Sent(reqs[r], "isNewMessagingSession") = {"false"}
    /\ Sent(reqs[r], "language") = {}

Lacks(config) ==
  \/ ~config.given
  \/ config.baseUrl = NoKey \/ config.orgId = NoKey \/ config.developerName = NoKey

FirstMissingField(config) ==
  IF config.baseUrl = NoKey THEN "baseUrl"
  ELSE IF config.orgId = NoKey THEN "orgId"
  ELSE "developerName"

(* Nothing was created, logged or requested *)
NothingDone(c) ==
  /\ c.services = {} /\ c.infoLogs = 0 /\ c.logger = Absent
  /\ nreq = 0 /\ \A r \in ReqIds : reqs[r].fetches = 0

(* C19 as stated: a configuration that lacks any of baseUrl, orgId or      *)
(* developerName, or no configuration at all, makes the constructor fail   *)
(* with a validation error naming the first missing field, before any      *)
(* service is created, anything is logged or any network call is made.     *)
C19_MissingConfigNamesFirstField ==
  \A i \in 1..Len(clients) :
    Lacks(clients[i].config) =>
      /\ clients[i].thrown = "Missing configuration parameter: "
                               \o FirstMissingField(clients[i].config)
      /\ NothingDone(clients[i])

(* C19 amended: with no configuration the constructor fails with 'Missing  *)
(* client configuration.', which names no field; with a configuration      *)
(* object that has no member named baseUrl, orgId or developerName it      *)
(* fails with an error naming the first such member in that order; in both *)
(* cases nothing is created, logged or requested.                          *)
C19_MissingConfigFailsFirst ==
  \A i \in 1..Len(clients) :
    Lacks(clients[i].config) =>
      /\ clients[i].thrown =
           (IF ~clients[i].config.given THEN "Missing client configuration."
            ELSE "Missing configuration parameter: "
                   \o FirstMissingField(clients[i].config))
      /\ NothingDone(clients[i])

C19_Witness ==
  \E i \in 1..Len(clients) :
    /\ clients[i].config.given
    /\ clients[i].config.baseUrl = BaseUrl
    /\ clients[i].config.orgId = NoKey
    /\ clients[i].config.developerName = NoKey
    /\ clients[i].thrown = "Missing configuration parameter: orgId"
    /\ clients[i].services = {}

(* The values a header of the stream request has *)
HeaderValues(st, name) == {p[2] : p \in {q \in st.headers : q[1] = name}}

(* C20: the stream connection request always carries Accept:               *)
(* text/event-stream, Authorization: Bearer <token> and the organization   *)
(* header, and carries Last-Event-Id, set to options.lastEventId, exactly  *)
(* when a (non-empty) options.lastEventId was supplied.                    *)
C20_StreamRequestHeaders ==
  \A s \in StreamIds :
    streams[s].created > 0 =>
      /\ HeaderValues(streams[s], "Accept") = {"text/event-stream"}
      /\ HeaderValues(streams[s], "Authorization") = {"Bearer " \o streams[s].token}
      /\ HeaderValues(streams[s], "X-Org-Id") = {OrgId}
      /\ HeaderValues(streams[s], "Last-Event-Id") =
           (IF Truthy(streams[s].options.lastEventId)
            THEN {streams[s].options.lastEventId} ELSE {})

C20_Witness ==
  \E s \in StreamIds :
    /\ streams[s].fetches > 0
    /\ streams[s].options.lastEventId = "ev7"
    /\ <<"Last-Event-Id", "ev7">> \in streams[s].headers
    /\ <<"Authorization", "Bearer tokA">> \in streams[s].headers

(* C21: every failure of a network-bound operation reaches the caller      *)
(* classified: after a non-success status, a timeout or a transport        *)
(* failure with no response, the rejected error carries a type and the     *)
(* name of the operation.                                                  *)
C21_EveryFailureClassified ==
  \A r \in ReqIds :
    (reqs[r].pc = "done"
       /\ reqs[r].outcome \in {"status_error", "timeout_error", "transport_error"}) =>
      /\ reqs[r].result = "rejected"
      /\ reqs[r].err.type # Absent
      /\ reqs[r].err.operation = reqs[r].operation

(* C22: every entry returned by list or sendMessage carries text only when *)
(* it is a message-type entry; an entry of any other type has no text.     *)
C22_TextOnlyOnMessageEntries ==
  \A r \in ReqIds :
    /\ (reqs[r].svc = "conversations.list" /\ reqs[r].result = "resolved") =>
         \A i \in 1..Len(reqs[r].value.entries) :
           reqs[r].value.entries[i].type # "Message" =>
             reqs[r].value.entries[i].text = Absent
    /\ (reqs[r].svc = "conversations.sendMessage" /\ reqs[r].result = "resolved") =>
         (reqs[r].value.type # "Message" => reqs[r].value.text = Absent)

(* C23: each inbound frame of an open stream is delivered to               *)
(* options.onEvent exactly once, unmodified and in arrival order; the      *)
(* controller drops, reorders, parses or filters no frame.                 *)
C23_FramesForwardedVerbatim ==
  \A s \in StreamIds :
    /\ streams[s].delivered = streams[s].arrived
    /\ streams[s].onEventCalls = Len(streams[s].arrived)

C23_Witness ==
  \E s \in StreamIds :
    /\ Len(streams[s].arrived) = 2
    /\ streams[s].arrived[1] # streams[s].arrived[2]
    /\ streams[s].arrived[2].event = "CONVERSATION_TYPING_STARTED_INDICATOR"
    /\ streams[s].delivered = streams[s].arrived

(* C24: on each transport connect of a stream the stream becomes Open and  *)
(* options.onOpen is invoked exactly once when it was provided; when it is *)
(* absent nothing is invoked and the stream still becomes Open. Nothing    *)
(* else invokes onOpen.                                                    *)
C24_ConnectOpensAndCallsOnOpen ==
  [][\A s \in StreamIds :
       /\ streams'[s].connects = streams[s].connects + 1 =>
            /\ streams'[s].state = "Open"
            /\ streams'[s].thrown = ""
            /\ streams'[s].onOpenCalls =
                 streams[s].onOpenCalls + (IF streams[s].options.onOpen THEN 1 ELSE 0)
       /\ streams'[s].connects = streams[s].connects =>
            streams'[s].onOpenCalls = streams[s].onOpenCalls]_vars

C24_Witness ==
  \E s \in StreamIds :
    /\ streams[s].connects = 2 /\ streams[s].state = "Open"
    /\ streams[s].options.onOpen /\ streams[s].onOpenCalls = 2

C24_WitnessWithoutOnOpen ==
  \E s \in StreamIds :
    /\ streams[s].connects = 1 /\ streams[s].state = "Open"
    /\ ~streams[s].options.onOpen /\ streams[s].onOpenCalls = 0

(* C25: list maps the wire entry array to an entries array of the same     *)
(* length and order: the i-th entry has id = the i-th wire identifier,     *)
(* type = entryType, sender = {id: sender.subject, type: sender.role} and  *)
(* a timestamp derived from clientTimestamp; no wire entry is dropped,     *)
(* duplicated or reordered.                                                *)
C25_ListMapsEntriesInOrder ==
  \A r \in ReqIds :
    (reqs[r].svc = "conversations.list" /\ reqs[r].result = "resolved") =>
      LET es == reqs[r].response.conversationEntries
          out == reqs[r].value.entries IN
      /\ Len(out) = Len(es)
      /\ \A i \in 1..Len(es) :
           /\ out[i].id = es[i].identifier
           /\ out[i].type = es[i].entryType
           /\ out[i].sender = [id |-> es[i].subject, type |-> es[i].role]
           /\ out[i].timestamp = (IF es[i].clientTimestamp = 0
                                  THEN "1970-01-01T00:00:00.000Z"
                                  ELSE "1970-01-01T00:00:01.000Z")

C25_Witness ==
  \E r \in ReqIds :
    /\ reqs[r].svc = "conversations.list" /\ reqs[r].result = "resolved"
    /\ Len(reqs[r].value.entries) = 2
    /\ reqs[r].value.entries[1].id = "e2"
    /\ reqs[r].value.entries[2].id = "e1"
    /\ reqs[r].value.entries[2].sender = [id |-> "agent-1", type |-> "Agent"]

(* C26: cancellation is scoped per request: when several requests are in   *)
(* flight, the timeout abort of one of them, and its rejection with the    *)
(* timeout error, leave every other request as it was.                     *)
C26_AbortScopedPerRequest ==
  [][\A r \in ReqIds :
       (\/ reqs'[r].aborted # reqs[r].aborted
        \/ reqs'[r].outcome = "timeout_error" /\ reqs[r].outcome # "timeout_error") =>
         \A q \in ReqIds \ {r} : reqs'[q] = reqs[q]]_vars

C26_Witness ==
  \E r \in ReqIds, q \in ReqIds :
    /\ r < q
    /\ reqs[r].pc = "inflight" /\ reqs[r].aborted
    /\ reqs[q].pc = "done" /\ reqs[q].result = "resolved" /\ reqs[q].timeout > 0
    /\ ~reqs[q].aborted

(* The operations that take a bearer token, and those that take a          *)
(* conversation id                                                         *)
TokenServices ==
  {"tokens.continue", "conversations.create", "conversations.close",
   "conversations.endSession", "conversations.status",
   "conversations.sendMessage", "conversations.sendTypingIndicator",
   "conversations.sendReceipts", "conversations.list"}

ConversationServices == TokenServices \ {"tokens.continue", "conversations.create"}

(* The addresses of the operations on conversation c *)
ConversationUrls(c) ==
  {ApiRoot \o "/conversation/" \o c \o suffix :
     suffix \in {"", "?esDeveloperName=" \o DeveloperName,
                 "/session?esDeveloperName=" \o DeveloperName,
                 "/message", "/entry", "/acknowledge-entries"}
                \cup {"/entries?" \o ListQuery(p) : p \in ListParamsSet}}

SettledOneWay(rq) ==
  /\ rq.outcome \in {"response", "status_error", "timeout_error", "transport_error"}
  /\ rq.result = (IF rq.outcome = "response" THEN "resolved" ELSE "rejected")
  /\ rq.outcome = "response" => IsOk(rq.status) /\ rq.err = NoError
  /\ rq.outcome = "status_error" =>
       ~IsOk(rq.status) /\ rq.err.statusCode = rq.status /\ rq.status # 0
  /\ rq.outcome = "transport_error" => rq.status = 0 /\ rq.err.name = "TypeError"
  /\ rq.outcome = "timeout_error" => rq.status = 0 /\ rq.err.type = "timeout_error"
  (* the race: the timer won exactly when the outcome is the timeout *)
  /\ rq.aborted <=> rq.outcome = "timeout_error"

(* C28: each makeRequest call settles exactly once, with exactly one of    *)
(* the response, a status-classified error, a timeout error or the         *)
(* transport error; when the timeout and the response race, the first to   *)
(* occur decides the outcome and the other changes nothing.                *)
C28_SettlesOnceOneOutcome ==
  /\ [](\A r \in ReqIds :
          /\ reqs[r].pc = "done" => SettledOneWay(reqs[r])
          /\ reqs[r].pc = "inflight" =>
               reqs[r].outcome = "none" /\ reqs[r].result = "pending")
  /\ [][\A r \in ReqIds : reqs[r].pc = "done" => reqs'[r] = reqs[r]]_vars

C28_Witness ==
  \E r \in ReqIds, q \in ReqIds :
    /\ reqs[r].pc = "done" /\ reqs[r].timeout > 0
    /\ reqs[r].outcome = "response" /\ ~reqs[r].aborted /\ ~reqs[r].timer
    /\ reqs[q].pc = "done" /\ reqs[q].timeout > 0
    /\ reqs[q].outcome = "timeout_error" /\ reqs[q].aborted

(* C29: once a makeRequest call has settled, with any outcome, its timer   *)
(* is cancelled and its abort signal never fires afterwards: the timeout   *)
(* bounds the wait for the response and not what the caller does with the  *)
(* response later.                                                         *)
C29_TimerCancelledOnSettlement ==
  /\ [](\A r \in ReqIds : reqs[r].pc = "done" => ~reqs[r].timer)
  /\ [][\A r \in ReqIds :
          reqs[r].pc = "done" => reqs'[r].aborted = reqs[r].aborted]_vars

C29_Witness ==
  \E r \in ReqIds :
    /\ reqs[r].pc = "done" /\ reqs[r].timeout = 5000
    /\ reqs[r].outcome = "response" /\ reqs[r].status = 200
    /\ reqs[r].value = [status |-> 200, body |-> NoBody]
    /\ ~reqs[r].timer /\ ~reqs[r].aborted

(* C30: no token or conversation operation passes a timeout to             *)
(* makeRequest: for every operation of the public client the abort timer   *)
(* is never armed and a timeout_error outcome is unreachable; an operation *)
(* settles only when its fetch does, so a request whose response never     *)
(* arrives leaves it pending.                                              *)
C30_PublicOperationsNeverTimeOut ==
  /\ [](\A r \in ReqIds :
          /\ reqs[r].timeout = 0
          /\ ~reqs[r].timer /\ ~reqs[r].aborted
          /\ reqs[r].outcome # "timeout_error"
          /\ reqs[r].err.type # "timeout_error")
  /\ [][\A r \in ReqIds :
          (reqs[r].pc = "inflight" /\ reqs'[r] # reqs[r]) =>
            /\ reqs'[r].pc = "done"
            /\ reqs'[r].outcome \in {"response", "status_error", "transport_error"}]_vars

C30_Witness ==
  \E r \in ReqIds :
    /\ reqs[r].svc = "tokens.continue" /\ reqs[r].pc = "inflight"
    /\ reqs[r].fetches = 1 /\ reqs[r].result = "pending"
    /\ reqs[r].timeout = 0 /\ ~reqs[r].timer

=============================================================================
